---- MODULE Spec2Model ----
(***************************************************************************)
(* SimpleBot: the rule (action) engine of src/action.rs, the builtin       *)
(* commands of src/builtins.rs and the loading and event handling of       *)
(* src/main.rs.                                                            *)
(*                                                                         *)
(* Text is a sequence of one-character strings, so that escaping, word     *)
(* boundaries and captures are computed and not assumed.                   *)
(* An Option is a sequence of length 0 (None) or 1 (Some).                 *)
(***************************************************************************)
EXTENDS Integers, Sequences, FiniteSets, TLC

VARIABLES
    \* the bot (struct Bot) and what it runs on
    up,            \* the process is running: main got past load_settings
    files,         \* the files read and written: settings, dynamic, inc
    settings,      \* bot.settings.actions: the ActionFile of the settings
    actions,       \* bot.actions: the active ActionList
    should_reload, \* bot.should_reload
    list,          \* bot.list: the pages of the trigger listing
    con,           \* the connection: "open", or "removed" after quit
    lastLoad,      \* what the last load_settings returned: "none", "ok", "failed"
    listening,     \* the listener runs: it holds the read lock on the bot
    batch,         \* the events the listener still has to handle
    \* one call of ActionList::handle
    msg,           \* the Message given to handle
    oracle,        \* outcome of the process each Command/Shell rule would run
    hres,          \* what the last call of handle returned and evaluated
    sent,          \* the replies sent for the last event handled
    proc,          \* "running" while handle waits for the process of a reaction
    \* init_list
    descriptions,  \* the sorted, deduplicated trigger descriptions
    \* observers (no state of the program)
    snapshot,      \* bot.actions when the listener took the lock
    built,         \* the last ActionList a load built completely and published
    scen,          \* progress of the scenario add, message, del, message
    now,           \* the time
    recent         \* the times of the latest replies

vars == <<up, files, settings, actions, should_reload, list, con, lastLoad,
          listening, batch, msg, oracle, hres, sent, proc, descriptions, snapshot, built,
          scen, now, recent>>

botVars == <<up, files, settings, actions, should_reload, list, con, lastLoad,
             listening, batch>>
handleVars == <<msg, oracle, hres, sent, proc>>
observers == <<snapshot, built, scen, now, recent>>

---------------------------------------------------------------------------
(* Option *)
None == <<>>
Some(x) == <<x>>
IsSome(o) == Len(o) = 1
Unwrap(o) == o[1]

---------------------------------------------------------------------------
(* Characters *)
Letters == {"a", "b", "c", "d", "e", "f", "g", "h", "i", "j", "k", "l", "m",
            "n", "o", "p", "q", "r", "s", "t", "u", "v", "w", "x", "y", "z",
            "F", "R", "U"}
Digits == {"0", "1", "2", "3", "4", "5", "6", "7", "8", "9"}

\* char::is_alphabetic
IsAlphabetic(c) == c \in Letters

\* the regex crate's word characters (\w), which decide \b
IsWordChar(c) == c \in Letters \cup Digits \cup {"_"}

\* the characters regex::escape puts a backslash before
MetaChars == {"\\", ".", "+", "*", "?", "(", ")", "|", "[", "]", "{", "}",
              "^", "$", "#", "&", "-", "~"}

RECURSIVE Escape(_)
Escape(s) ==
    IF s = <<>> THEN <<>>
    ELSE (IF Head(s) \in MetaChars THEN <<"\\", Head(s)>> ELSE <<Head(s)>>)
         \o Escape(Tail(s))

---------------------------------------------------------------------------
(* Regex::new and Regex::is_match for the pattern syntax the bot uses:     *)
(* literals, escaped metacharacters, \b, ^, $, . and .*                     *)
Atom(t, c) == [t |-> t, c |-> c]

RECURSIVE ParseFrom(_, _, _)
ParseFrom(src, i, acc) ==
    IF i > Len(src) THEN [ok |-> TRUE, atoms |-> acc]
    ELSE LET c == src[i] IN
         IF c = "\\" THEN
             IF i = Len(src) THEN [ok |-> FALSE, atoms |-> <<>>]
             ELSE IF src[i + 1] = "b"
                  THEN ParseFrom(src, i + 2, Append(acc, Atom("wb", "")))
             ELSE IF src[i + 1] \in MetaChars
                  THEN ParseFrom(src, i + 2, Append(acc, Atom("chr", src[i + 1])))
             ELSE [ok |-> FALSE, atoms |-> <<>>]
         ELSE IF c = "^" THEN ParseFrom(src, i + 1, Append(acc, Atom("bol", "")))
         ELSE IF c = "$" THEN ParseFrom(src, i + 1, Append(acc, Atom("eol", "")))
         ELSE IF c = "." THEN
             IF i < Len(src) /\ src[i + 1] = "*"
             THEN ParseFrom(src, i + 2, Append(acc, Atom("star", "")))
             ELSE ParseFrom(src, i + 1, Append(acc, Atom("any", "")))
         \* a group is never closed in the patterns of this model, and a
         \* repetition or a bracket stands alone: all are syntax errors
         ELSE IF c \in MetaChars THEN [ok |-> FALSE, atoms |-> <<>>]
         ELSE ParseFrom(src, i + 1, Append(acc, Atom("chr", c)))

RegexNew(src) == ParseFrom(src, 1, <<>>)

\* \b at position p (between text[p-1] and text[p])
WordBoundary(text, p) ==
    LET before == p > 1 /\ IsWordChar(text[p - 1])
        after == p <= Len(text) /\ IsWordChar(text[p])
    IN  before # after

RECURSIVE MatchAt(_, _, _, _)
MatchAt(atoms, k, text, p) ==
    IF k > Len(atoms) THEN TRUE
    ELSE LET a == atoms[k] IN
         CASE a.t = "chr" -> p <= Len(text) /\ text[p] = a.c
                             /\ MatchAt(atoms, k + 1, text, p + 1)
           [] a.t = "any" -> p <= Len(text) /\ MatchAt(atoms, k + 1, text, p + 1)
           [] a.t = "star" -> \E q \in p..(Len(text) + 1) :
                                  MatchAt(atoms, k + 1, text, q)
           [] a.t = "wb" -> WordBoundary(text, p) /\ MatchAt(atoms, k + 1, text, p)
           [] a.t = "bol" -> p = 1 /\ MatchAt(atoms, k + 1, text, p)
           [] a.t = "eol" -> p = Len(text) + 1 /\ MatchAt(atoms, k + 1, text, p)

\* Regex::is_match: a match anywhere in the text
IsMatch(src, text) ==
    LET r == RegexNew(src)
    IN  r.ok /\ \E s \in 1..(Len(text) + 1) : MatchAt(r.atoms, 1, text, s)

---------------------------------------------------------------------------
(* ActionDefinition, Action, Matcher, Reaction *)
ActionDefinition(contains, regex, chat, response, command, shell) ==
    [contains |-> contains, regex |-> regex, chat |-> chat,
     response |-> response, command |-> command, shell |-> shell]

MatcherRegex(src) == [kind |-> "Regex", re |-> src, mode |-> None]
MatcherMode(m) == [kind |-> "Mode", re |-> <<>>, mode |-> m]

ReactionOf(kind, s) == [kind |-> kind, s |-> s]

Action(matchers, reaction) == [matchers |-> matchers, reaction |-> reaction]

\* faulty variant: the literal trigger is escaped and gets no \b
ContainsRegexUnbounded(contains) == Escape(contains)

\* the literal trigger as a pattern: escaped, with \b where it starts or
\* ends with an alphabetic character
ContainsRegex(contains) ==
    LET r0 == Escape(contains)
        r1 == IF r0 # <<>> /\ IsAlphabetic(r0[1]) THEN <<"\\", "b">> \o r0 ELSE r0
        r2 == IF r1 # <<>> /\ IsAlphabetic(r1[Len(r1)])
              THEN r1 \o <<"\\", "b">> ELSE r1
    IN  r2

ChatModes == {"server", "channel", "client", "poke"}

\* faulty variant: several reactions are accepted and the last one is kept
ToActionKeepsLastReaction(d) ==
    LET both == IsSome(d.contains) /\ IsSome(d.regex)
        src == IF IsSome(d.contains) THEN Some(ContainsRegex(Unwrap(d.contains)))
               ELSE d.regex
        badRegex == IsSome(src) /\ ~RegexNew(Unwrap(src)).ok
        badChat == IsSome(d.chat) /\ Unwrap(d.chat) \notin ChatModes
        m1 == IF IsSome(src) THEN <<MatcherRegex(Unwrap(src))>> ELSE <<>>
        m2 == IF IsSome(d.chat)
              THEN <<MatcherMode(IF Unwrap(d.chat) = "poke" THEN None
                                 ELSE Some(Unwrap(d.chat)))>>
              ELSE <<>>
        reaction == IF IsSome(d.shell) THEN Some(ReactionOf("Shell", Unwrap(d.shell)))
                    ELSE IF IsSome(d.command)
                         THEN Some(ReactionOf("Command", Unwrap(d.command)))
                    ELSE IF IsSome(d.response)
                         THEN Some(ReactionOf("Plain", Unwrap(d.response)))
                    ELSE None
    IN  IF both \/ badRegex \/ badChat
        THEN [ok |-> FALSE, val |-> Action(<<>>, None)]
        ELSE [ok |-> TRUE, val |-> Action(m1 \o m2, reaction)]

\* ActionDefinition::to_action: [ok, val]
ToAction(d) ==
    LET both == IsSome(d.contains) /\ IsSome(d.regex)
        src == IF IsSome(d.contains) THEN Some(ContainsRegex(Unwrap(d.contains)))
               ELSE d.regex
        badRegex == IsSome(src) /\ ~RegexNew(Unwrap(src)).ok
        badChat == IsSome(d.chat) /\ Unwrap(d.chat) \notin ChatModes
        m1 == IF IsSome(src) THEN <<MatcherRegex(Unwrap(src))>> ELSE <<>>
        m2 == IF IsSome(d.chat)
              THEN <<MatcherMode(IF Unwrap(d.chat) = "poke" THEN None
                                 ELSE Some(Unwrap(d.chat)))>>
              ELSE <<>>
        counter == (IF IsSome(d.response) THEN 1 ELSE 0)
                   + (IF IsSome(d.command) THEN 1 ELSE 0)
                   + (IF IsSome(d.shell) THEN 1 ELSE 0)
        reaction == IF IsSome(d.shell) THEN Some(ReactionOf("Shell", Unwrap(d.shell)))
                    ELSE IF IsSome(d.command)
                         THEN Some(ReactionOf("Command", Unwrap(d.command)))
                    ELSE IF IsSome(d.response)
                         THEN Some(ReactionOf("Plain", Unwrap(d.response)))
                    ELSE None
    IN  IF both \/ badRegex \/ badChat \/ counter > 1
        THEN [ok |-> FALSE, val |-> Action(<<>>, None)]
        ELSE [ok |-> TRUE, val |-> Action(m1 \o m2, reaction)]

\* Matcher::matches
Matches(m, message) ==
    IF m.kind = "Regex" THEN IsMatch(m.re, message.message)
    ELSE IF IsSome(m.mode) THEN
        CASE Unwrap(m.mode) = "server" -> message.target = "server"
          [] Unwrap(m.mode) = "channel" -> message.target = "channel"
          [] Unwrap(m.mode) = "client" -> message.target = "client"
          [] OTHER -> FALSE
    ELSE message.target = "poke"

\* faulty variant: a rule without matchers matches no message
AllMatchNeedsMatcher(a, message) ==
    /\ a.matchers # <<>>
    /\ \A k \in 1..Len(a.matchers) : Matches(a.matchers[k], message)

AllMatch(a, message) ==
    \A k \in 1..Len(a.matchers) : Matches(a.matchers[k], message)

---------------------------------------------------------------------------
(* The process a Command or Shell reaction runs: whether it could be      *)
(* spawned, its exit status, whether its output is UTF-8, and the output. *)
ProcessOutput(spawned, status, utf8, stdout) ==
    [spawned |-> spawned, status |-> status, utf8 |-> utf8, stdout |-> stdout]

Outcomes ==
    { ProcessOutput(FALSE, 0, TRUE, <<>>),
      ProcessOutput(TRUE, 1, TRUE, <<"e", "r", "r">>),
      ProcessOutput(TRUE, 0, FALSE, <<>>),
      ProcessOutput(TRUE, 0, TRUE, <<>>),
      ProcessOutput(TRUE, 0, TRUE, <<"o", "u", "t">>) }

\* faulty variant: a process that exits non-zero ends the evaluation without a reply
ExecuteNonZeroStops(r, out, fret) ==
    CASE r.kind = "Plain" -> Some(r.s)
      [] r.kind \in {"Command", "Shell"} ->
            IF ~out.spawned THEN Some(<<>>)
            ELSE IF out.status # 0 THEN Some(<<>>)
            ELSE IF ~out.utf8 THEN Some(<<>>)
            ELSE Some(out.stdout)
      [] r.kind = "Function" -> fret[r.s]

\* faulty variant: a process that cannot be spawned, or whose output is not
\* UTF-8, is inconclusive
ExecuteFailureFallsThrough(r, out, fret) ==
    CASE r.kind = "Plain" -> Some(r.s)
      [] r.kind \in {"Command", "Shell"} ->
            IF ~out.spawned THEN None
            ELSE IF out.status # 0 THEN None
            ELSE IF ~out.utf8 THEN None
            ELSE Some(out.stdout)
      [] r.kind = "Function" -> fret[r.s]

\* faulty variant: an empty plain response yields None, as if the reaction
\* had not concluded
ExecuteEmptyPlainIsNone(r, out, fret) ==
    CASE r.kind = "Plain" -> IF r.s = <<>> THEN None ELSE Some(r.s)
      [] r.kind \in {"Command", "Shell"} ->
            IF ~out.spawned THEN Some(<<>>)
            ELSE IF out.status # 0 THEN None
            ELSE IF ~out.utf8 THEN Some(<<>>)
            ELSE Some(out.stdout)
      [] r.kind = "Function" -> fret[r.s]

\* Reaction::execute. out is the outcome of the process; fret gives what
\* each builtin callback returns.
Execute(r, out, fret) ==
    CASE r.kind = "Plain" -> Some(r.s)
      [] r.kind \in {"Command", "Shell"} ->
            IF ~out.spawned THEN Some(<<>>)
            ELSE IF out.status # 0 THEN None
            ELSE IF ~out.utf8 THEN Some(<<>>)
            ELSE Some(out.stdout)
      [] r.kind = "Function" -> fret[r.s]

IsProcess(a) == IsSome(a.reaction) /\ Unwrap(a.reaction).kind \in {"Command", "Shell"}

ProcessRules(as) == {i \in 1..Len(as) : IsProcess(as[i])}

NoOutput == ProcessOutput(FALSE, 0, TRUE, <<>>)

OutcomeOf(orc, i) == IF i \in DOMAIN orc THEN orc[i] ELSE NoOutput

\* One iteration of the loop of ActionList::handle, for rule a:
\* [matched, ran: what the reaction returned (Some(res)) if it was executed,
\*  stop: handle returns here, ret: what it returns]
Iteration(matched, ran, stop, ret) ==
    [matched |-> matched, ran |-> ran, stop |-> stop, ret |-> ret]

\* faulty variant: a matched rule without a reaction is skipped
RuleStepSkipsSilent(a, message, out, fret) ==
    IF ~AllMatch(a, message) THEN Iteration(FALSE, None, FALSE, None)
    ELSE IF IsSome(a.reaction) THEN
        LET res == Execute(Unwrap(a.reaction), out, fret)
        IN  IF IsSome(res)
            THEN Iteration(TRUE, Some(res), TRUE,
                           IF Unwrap(res) = <<>> THEN None ELSE res)
            ELSE Iteration(TRUE, Some(res), FALSE, None)
    ELSE Iteration(TRUE, None, FALSE, None)

\* faulty variant: an empty result is inconclusive, like None
RuleStepSkipsEmpty(a, message, out, fret) ==
    IF ~AllMatch(a, message) THEN Iteration(FALSE, None, FALSE, None)
    ELSE IF IsSome(a.reaction) THEN
        LET res == Execute(Unwrap(a.reaction), out, fret)
        IN  IF IsSome(res) /\ Unwrap(res) # <<>>
            THEN Iteration(TRUE, Some(res), TRUE, res)
            ELSE Iteration(TRUE, Some(res), FALSE, None)
    ELSE Iteration(TRUE, None, TRUE, None)

\* faulty variant: an empty result is returned as the reply
RuleStepRepliesEmpty(a, message, out, fret) ==
    IF ~AllMatch(a, message) THEN Iteration(FALSE, None, FALSE, None)
    ELSE IF IsSome(a.reaction) THEN
        LET res == Execute(Unwrap(a.reaction), out, fret)
        IN  IF IsSome(res)
            THEN Iteration(TRUE, Some(res), TRUE, res)
            ELSE Iteration(TRUE, Some(res), FALSE, None)
    ELSE Iteration(TRUE, None, TRUE, None)

RuleStep(a, message, out, fret) ==
    IF ~AllMatch(a, message) THEN Iteration(FALSE, None, FALSE, None)
    ELSE IF IsSome(a.reaction) THEN
        LET res == Execute(Unwrap(a.reaction), out, fret)
        IN  IF IsSome(res)
            THEN Iteration(TRUE, Some(res), TRUE,
                           IF Unwrap(res) = <<>> THEN None ELSE res)
            ELSE Iteration(TRUE, Some(res), FALSE, None)
    ELSE Iteration(TRUE, None, TRUE, None)

\* ActionList::handle from rule i on. tested: the rules whose matchers were
\* evaluated, in order; executed: the rules whose reaction ran, with what it
\* returned.
RECURSIVE HandleFrom(_, _, _, _, _, _, _)
HandleFrom(as, message, orc, fret, i, tested, executed) ==
    IF i > Len(as) THEN [ret |-> None, tested |-> tested, executed |-> executed]
    ELSE LET it == RuleStep(as[i], message, OutcomeOf(orc, i), fret)
             t2 == Append(tested, i)
             e2 == IF IsSome(it.ran)
                   THEN Append(executed, [idx |-> i, ret |-> Unwrap(it.ran)])
                   ELSE executed
         IN  IF it.stop THEN [ret |-> it.ret, tested |-> t2, executed |-> e2]
             ELSE HandleFrom(as, message, orc, fret, i + 1, t2, e2)

Handle(as, message, orc, fret) == HandleFrom(as, message, orc, fret, 1, <<>>, <<>>)

---------------------------------------------------------------------------
(* Files. A file is missing (unreadable), garbage (it does not parse) or   *)
(* holds an ActionFile; for the settings file that is Settings.actions.    *)
ActionFile(include, on_message) == [include |-> include, on_message |-> on_message]

\* ActionFile::default()
EmptyFile == ActionFile(<<>>, <<>>)

FileOk(af) == [st |-> "ok", af |-> af]
FileMissing == [st |-> "missing", af |-> EmptyFile]
FileGarbage == [st |-> "garbage", af |-> EmptyFile]

NoFiles == [settings |-> FileMissing, dynamic |-> FileMissing, inc |-> FileMissing]

\* the loop of load_actions over f.on_message: the rules pushed before a
\* definition fails stay in the list
RECURSIVE PushDefs(_, _)
PushDefs(acc, defs) ==
    IF defs = <<>> THEN [ok |-> TRUE, actions |-> acc]
    ELSE LET r == ToAction(Head(defs))
         IN  IF r.ok THEN PushDefs(Append(acc, r.val), Tail(defs))
             ELSE [ok |-> FALSE, actions |-> acc]

\* load_actions: [ok, actions]
RECURSIVE LoadActions(_, _, _)
RECURSIVE LoadIncludes(_, _, _)
LoadActions(acc, f, fs) ==
    LET r == PushDefs(acc, f.on_message)
    IN  IF ~r.ok THEN r ELSE LoadIncludes(r.actions, f.include, fs)

LoadIncludes(acc, incs, fs) ==
    IF incs = <<>> THEN [ok |-> TRUE, actions |-> acc]
    ELSE LET file == fs[Head(incs)]
         IN  IF file.st # "ok" THEN [ok |-> FALSE, actions |-> acc]
             ELSE LET r == LoadActions(acc, file.af, fs)
                  IN  IF ~r.ok THEN r ELSE LoadIncludes(r.actions, Tail(incs), fs)

---------------------------------------------------------------------------
(* Builtins *)
\* default_prefix()
Prefix == <<".">>

BuiltinNames == <<"help", "copy", "list", "add", "del", "reload", "quit">>

\* the pattern of each builtin's matcher
BuiltinRegex(p, name) ==
    LET e == Escape(p)
    IN  CASE name = "help" -> <<"^">> \o e \o <<"h", "e", "l", "p">>
          [] name = "copy" -> <<"^">> \o e \o <<"c", "o", "p", "y">>
          [] name = "list" -> <<"^">> \o e \o <<"l", "i", "s", "t">>
          [] name = "add" -> <<"^">> \o e \o <<"a", "d", "d">>
          [] name = "del" -> <<"^">> \o e \o <<"d", "e", "l">>
          [] name = "reload" -> <<"^">> \o e \o <<"r", "e", "l", "o", "a", "d", "$">>
          [] name = "quit" -> <<"^">> \o e \o <<"q", "u", "i", "t", "$">>

\* add_fun
AddFun(as, r, f) ==
    Append(as, Action(<<MatcherRegex(r)>>, Some(ReactionOf("Function", <<f>>))))

\* builtins::init: the builtins are pushed onto bot.actions
RECURSIVE InitFrom(_, _, _)
InitFrom(as, p, k) ==
    IF k > Len(BuiltinNames) THEN as
    ELSE InitFrom(AddFun(as, BuiltinRegex(p, BuiltinNames[k]), BuiltinNames[k]), p, k + 1)

BuiltinsInit(as, p) == InitFrom(as, p, 1)

IsBuiltin(a) == IsSome(a.reaction) /\ Unwrap(a.reaction).kind = "Function"

---------------------------------------------------------------------------
(* The builtin callbacks. Each returns                                     *)
(* [ret: what the callback returns, dynamic: the dynamic file afterwards,  *)
(*  reload: it called reload(bot), quit: it removed the connection,        *)
(*  panic: it panicked].                                                   *)
(* The fixed texts of the program are written as one token each.           *)
Effect(ret, dynamic, reload, quit, panic) ==
    [ret |-> ret, dynamic |-> dynamic, reload |-> reload, quit |-> quit,
     panic |-> panic]

T_Failed == <<"Failed">>
T_UsageAdd(p) == <<"Usage: ">> \o p \o <<"add <response> on <trigger>">>
T_UsageDel(p) == <<"Usage: ">> \o p \o <<"del <trigger>">>
T_Help(p) == <<"This is a SimpleBot. Use ">> \o p \o <<"add, ">> \o p
             \o <<"del, ">> \o p \o <<"list, ">> \o p \o <<"quit">>
T_Copyright == <<"This is a SimpleBot. This software is licensed under MIT and Apache License, Version 2.0.">>

StartsWith(text, pre) ==
    Len(text) >= Len(pre) /\ SubSeq(text, 1, Len(pre)) = pre

\* the captures of ^<p>add (?P<response>.*) on (?P<trigger>.*)$ : the
\* first group is greedy, so the text is cut at the last " on "
AddCaptures(p, text) ==
    LET head == p \o <<"a", "d", "d", " ">>
        on == <<" ", "o", "n", " ">>
        K == {k \in (Len(head) + 1)..(Len(text) - 3) : SubSeq(text, k, k + 3) = on}
    IN  IF StartsWith(text, head) /\ K # {}
        THEN LET k == CHOOSE x \in K : \A y \in K : y <= x
             IN  Some([response |-> SubSeq(text, Len(head) + 1, k - 1),
                       trigger |-> SubSeq(text, k + 4, Len(text))])
        ELSE None

\* the capture of ^<p>del (?P<trigger>.*)$
DelCaptures(p, text) ==
    LET head == p \o <<"d", "e", "l", " ">>
    IN  IF StartsWith(text, head)
        THEN Some(SubSeq(text, Len(head) + 1, Len(text)))
        ELSE None

\* faulty variant: add puts the new rule in front of the others
AddPrepends(p, text, dyn, writeOk) ==
    LET caps == AddCaptures(p, text)
    IN  IF caps = None THEN Effect(Some(T_UsageAdd(p)), dyn, FALSE, FALSE, FALSE)
        ELSE IF dyn.st = "garbage"
             THEN Effect(Some(T_Failed), dyn, FALSE, FALSE, FALSE)
        ELSE LET cur == IF dyn.st = "ok" THEN dyn.af ELSE EmptyFile
                 new == ActionFile(cur.include,
                            <<ActionDefinition(Some(Unwrap(caps).trigger), None,
                                  None, Some(Unwrap(caps).response), None, None)>>
                            \o cur.on_message)
             IN  IF ~writeOk THEN Effect(Some(T_Failed), dyn, FALSE, FALSE, FALSE)
                 ELSE Effect(Some(<<>>), FileOk(new), TRUE, FALSE, FALSE)

\* faulty variant: add asks for a reload although the write failed
AddReloadsAfterFailedWrite(p, text, dyn, writeOk) ==
    LET caps == AddCaptures(p, text)
    IN  IF caps = None THEN Effect(Some(T_UsageAdd(p)), dyn, FALSE, FALSE, FALSE)
        ELSE IF dyn.st = "garbage"
             THEN Effect(Some(T_Failed), dyn, FALSE, FALSE, FALSE)
        ELSE LET cur == IF dyn.st = "ok" THEN dyn.af ELSE EmptyFile
                 new == ActionFile(cur.include,
                            Append(cur.on_message,
                                   ActionDefinition(Some(Unwrap(caps).trigger), None,
                                       None, Some(Unwrap(caps).response), None, None)))
             IN  IF ~writeOk THEN Effect(Some(T_Failed), dyn, TRUE, FALSE, FALSE)
                 ELSE Effect(Some(<<>>), FileOk(new), TRUE, FALSE, FALSE)

\* builtins::add
Add(p, text, dyn, writeOk) ==
    LET caps == AddCaptures(p, text)
    IN  IF caps = None THEN Effect(Some(T_UsageAdd(p)), dyn, FALSE, FALSE, FALSE)
        ELSE IF dyn.st = "garbage"
             THEN Effect(Some(T_Failed), dyn, FALSE, FALSE, FALSE)
        ELSE LET cur == IF dyn.st = "ok" THEN dyn.af ELSE EmptyFile
                 new == ActionFile(cur.include,
                            Append(cur.on_message,
                                   ActionDefinition(Some(Unwrap(caps).trigger), None,
                                       None, Some(Unwrap(caps).response), None, None)))
             IN  IF ~writeOk THEN Effect(Some(T_Failed), dyn, FALSE, FALSE, FALSE)
                 ELSE Effect(Some(<<>>), FileOk(new), TRUE, FALSE, FALSE)

\* faulty variant: del also drops the rules without a literal trigger
RetainedOnlyOtherLiterals(a, trigger) ==
    IF IsSome(a.contains) THEN Unwrap(a.contains) # trigger ELSE FALSE

\* the closure given to retain in builtins::del
Retained(a, trigger) ==
    IF IsSome(a.contains) THEN Unwrap(a.contains) # trigger ELSE TRUE

\* builtins::del
Del(p, text, dyn, writeOk) ==
    LET caps == DelCaptures(p, text)
    IN  IF caps = None THEN Effect(Some(T_UsageDel(p)), dyn, FALSE, FALSE, FALSE)
        ELSE IF dyn.st = "garbage"
             THEN Effect(Some(T_Failed), dyn, FALSE, FALSE, FALSE)
        ELSE LET cur == IF dyn.st = "ok" THEN dyn.af ELSE EmptyFile
                 kept == SelectSeq(cur.on_message, LAMBDA a : Retained(a, Unwrap(caps)))
                 count == Len(cur.on_message) - Len(kept)
                 new == ActionFile(cur.include, kept)
             IN  IF ~writeOk THEN Effect(Some(T_Failed), dyn, FALSE, FALSE, FALSE)
                 ELSE Effect(Some(IF count = 1
                                  THEN <<"Removed ", ToString(count), " element">>
                                  ELSE <<"Removed ", ToString(count), " elements">>),
                             FileOk(new), TRUE, FALSE, FALSE)

DigitValue(c) == CHOOSE v \in 0..9 : ToString(v) = c

RECURSIVE DigitsValue(_, _)
DigitsValue(s, acc) ==
    IF s = <<>> THEN acc ELSE DigitsValue(Tail(s), acc * 10 + DigitValue(Head(s)))

\* str::parse::<usize>: digits, after an optional +
ParseUsize(s) ==
    LET d == IF s # <<>> /\ Head(s) = "+" THEN Tail(s) ELSE s
    IN  IF d # <<>> /\ \A k \in 1..Len(d) : d[k] \in Digits
        THEN Some(DigitsValue(d, 0)) ELSE None

\* str::rfind(' '): 0 when there is no space
RFindSpace(text) ==
    IF \E k \in 1..Len(text) : text[k] = " "
    THEN CHOOSE k \in 1..Len(text) :
             text[k] = " " /\ \A j \in (k + 1)..Len(text) : text[j] # " "
    ELSE 0

\* faulty variant: the page number is taken as an index counted from 0
ListPageFromZero(pages, text) ==
    LET i == RFindSpace(text)
        n == IF i > 0 THEN ParseUsize(SubSeq(text, i + 1, Len(text))) ELSE None
        page == IF IsSome(n) THEN Unwrap(n) ELSE 0
    IN  IF page >= Len(pages) THEN Len(pages) - 1 ELSE page

\* the page index builtins::list reads, counted from 0; -1 stands for the
\* index len() - 1 of an empty list
ListPage(pages, text) ==
    LET i == RFindSpace(text)
        n == IF i > 0 THEN ParseUsize(SubSeq(text, i + 1, Len(text))) ELSE None
        page == IF IsSome(n) /\ Unwrap(n) # 0 THEN Unwrap(n) - 1 ELSE 0
    IN  IF page >= Len(pages) THEN Len(pages) - 1 ELSE page

\* builtins::list
List(p, pages, text, dyn) ==
    LET page == ListPage(pages, text)
    IN  IF page < 0 THEN Effect(None, dyn, FALSE, FALSE, TRUE)
        ELSE LET page_s == pages[page + 1]
             IN  Effect(Some(IF Len(pages) > 1
                             THEN <<"Page ", ToString(page + 1), "/",
                                    ToString(Len(pages)), ", use [i]">> \o p
                                  \o <<"list <page>[/i] to show more.">> \o page_s
                             ELSE page_s),
                        dyn, FALSE, FALSE, FALSE)

\* what the callback of builtin name does
BuiltinRun(name, p, text, dyn, writeOk, pages) ==
    CASE name = "help" -> Effect(Some(T_Help(p)), dyn, FALSE, FALSE, FALSE)
      [] name = "copy" -> Effect(Some(T_Copyright), dyn, FALSE, FALSE, FALSE)
      [] name = "list" -> List(p, pages, text, dyn)
      [] name = "add" -> Add(p, text, dyn, writeOk)
      [] name = "del" -> Del(p, text, dyn, writeOk)
      [] name = "reload" -> Effect(Some(<<>>), dyn, TRUE, FALSE, FALSE)
      [] name = "quit" -> Effect(Some(<<>>), dyn, FALSE, TRUE, FALSE)

---------------------------------------------------------------------------
(* init_list *)
PageBudget == 900

\* str::replace
RECURSIVE Replace(_, _, _)
Replace(s, from, to) ==
    IF Len(s) < Len(from) THEN s
    ELSE IF SubSeq(s, 1, Len(from)) = from
         THEN to \o Replace(SubSeq(s, Len(from) + 1, Len(s)), from, to)
         ELSE <<Head(s)>> \o Replace(Tail(s), from, to)

ModeText(m) ==
    CASE m = None -> <<"p", "o", "k", "e">>
      [] m = Some("server") -> <<"s", "e", "r", "v", "e", "r">>
      [] m = Some("channel") -> <<"c", "h", "a", "n", "n", "e", "l">>
      [] m = Some("client") -> <<"c", "l", "i", "e", "n", "t">>

\* the text init_list makes of one matcher
DescribeMatcher(m) ==
    IF m.kind = "Regex"
    THEN LET r1 == SelectSeq(m.re, LAMBDA c : c \notin {"^", "$"})
             r2 == Replace(r1, <<"\\", "b">>, <<>>)
             r3 == Replace(r2, <<"\\", "\\">>, <<"\\">>)
         IN  Replace(r3, <<"\\", ".">>, <<".">>)
    ELSE <<" ", "(", "o", "n", "l", "y", " ", "i", "n", " ">> \o ModeText(m.mode)
         \o <<" ", "m", "o", "d", "e", ")">>

RECURSIVE Describe(_, _)
Describe(ms, k) ==
    IF k > Len(ms) THEN <<>> ELSE DescribeMatcher(ms[k]) \o Describe(ms, k + 1)

\* the order of the characters (their bytes)
AsciiOrder ==
    <<"\n", " ", "#", "$", "&", "(", ")", "*", "+", "-", ".", "/",
      "0", "1", "2", "3", "4", "5", "6", "7", "8", "9", "?", "F", "R", "U",
      "[", "\\", "]", "^", "_",
      "a", "b", "c", "d", "e", "f", "g", "h", "i", "j", "k", "l", "m",
      "n", "o", "p", "q", "r", "s", "t", "u", "v", "w", "x", "y", "z",
      "{", "|", "}", "~">>

Ord(c) == CHOOSE i \in 1..Len(AsciiOrder) : AsciiOrder[i] = c

\* s < t as strings
StrLess(s, t) ==
    \E k \in 1..(Len(t)) :
        /\ k <= Len(s) + 1
        /\ \A j \in 1..(k - 1) : s[j] = t[j]
        /\ (k = Len(s) + 1 \/ Ord(s[k]) < Ord(t[k]))

\* sort_unstable and dedup
RECURSIVE SortSet(_)
SortSet(S) ==
    IF S = {} THEN <<>>
    ELSE LET m == CHOOSE x \in S : \A y \in S \ {x} : StrLess(x, y)
         IN  <<m>> \o SortSet(S \ {m})

\* the loop that groups the lines into pages
RECURSIVE GroupFrom(_, _, _)
GroupFrom(res, ms, k) ==
    IF k > Len(ms) THEN res
    ELSE LET m == ms[k]
             res1 == IF Len(res[Len(res)]) + Len(m) > PageBudget
                     THEN Append(res, <<>>) ELSE res
             cur == res1[Len(res1)]
         IN  GroupFrom([res1 EXCEPT ![Len(res1)] = (cur \o <<"\n">>) \o m], ms, k + 1)

GroupPages(ms) == GroupFrom(<< <<>> >>, ms, 1)

\* init_list
InitList(as) ==
    GroupPages(SortSet({Describe(as[i].matchers, 1) : i \in 1..Len(as)}))

---------------------------------------------------------------------------
(* load_settings on the bot b = [settings, actions]:                       *)
(* [ok: it returned Ok, settings, actions: the bot afterwards,             *)
(*  complete: every rule of the settings was built]                        *)
Loaded(ok, s, as, complete) ==
    [ok |-> ok, settings |-> s, actions |-> as, complete |-> complete]

\* the end of load_settings: the dynamic rules r are pushed after the
\* static ones and the list replaces bot.actions, or the function returns
\* the error and leaves the builtins pushed onto the old bot.actions
Publish(s2, static, pushed, r) ==
    IF ~r.ok THEN Loaded(FALSE, s2, pushed, FALSE)
    ELSE Loaded(TRUE, s2, r.actions, static.ok)

\* load_settings after the settings s2 replaced bot.settings. An error in
\* the rules of the settings is only logged; builtins::init pushes the
\* builtins onto bot.actions.
LoadRules(s2, static, pushed, fs) ==
    IF fs.dynamic.st = "garbage" THEN Loaded(FALSE, s2, pushed, FALSE)
    ELSE Publish(s2, static, pushed,
             LoadActions(static.actions,
                 IF fs.dynamic.st = "ok" THEN fs.dynamic.af ELSE EmptyFile, fs))

LoadWith(b, s2, fs) ==
    LoadRules(s2, LoadActions(<<>>, s2, fs), BuiltinsInit(b.actions, Prefix), fs)

LoadSettings(b, fs) ==
    IF fs.settings.st = "garbage" THEN Loaded(FALSE, b.settings, b.actions, FALSE)
    ELSE LoadWith(b, IF fs.settings.st = "ok" THEN fs.settings.af ELSE b.settings, fs)

---------------------------------------------------------------------------
(* Texts *)
T_bar == <<"b", "a", "r">>
T_foo == <<"f", "o", "o">>
T_baz == <<"b", "a", "z">>
T_qux == <<"q", "u", "x">>
T_cmd == <<"c", "m", "d">>
T_sh == <<"s", "h">>
T_x_bar == <<"x", " ", "b", "a", "r">>

Message(target, text, invoker) ==
    [target |-> target, message |-> text, invoker |-> invoker]

---------------------------------------------------------------------------
(* Observers *)
\* the scenario: add "foo" on "bar", a message with the word bar, del bar,
\* the same message. stage counts the steps seen; r1 and r2 are what handle
\* returned for the two messages
Scenario(stage, r1, r2) == [stage |-> stage, r1 |-> r1, r2 |-> r2]

NoScenario == Scenario(0, None, None)

---------------------------------------------------------------------------
(* ActionList::handle on its own: every list of at most MaxRules rules     *)
(* built by to_action from HandleDefs, every message of HandleMsgs, every  *)
(* outcome of the processes the rules run.                                 *)
MaxRules == 3

HandleDefs ==
    { ActionDefinition(Some(T_bar), None, None, Some(T_foo), None, None),
      ActionDefinition(Some(T_bar), None, None, None, None, None),
      ActionDefinition(Some(T_bar), None, None, Some(<<>>), None, None),
      ActionDefinition(Some(T_bar), None, None, None, Some(T_cmd), None),
      ActionDefinition(None, None, Some("poke"), None, None, Some(T_sh)),
      ActionDefinition(None, Some(T_baz), None, Some(T_qux), None, None) }

HandleRules == {ToAction(d).val : d \in {x \in HandleDefs : ToAction(x).ok}}

HandleMsgs ==
    { Message("channel", T_x_bar, 2),
      Message("poke", T_bar, 2),
      Message("server", T_baz, 2) }

SeqsUpTo(S, n) == UNION {[1..k -> S] : k \in 0..n}

NoFunctions == [f \in {} |-> None]

NotRun == [ran |-> FALSE, ret |-> None, tested |-> <<>>, executed |-> <<>>]

Ran(r) == [ran |-> TRUE, ret |-> r.ret, tested |-> r.tested, executed |-> r.executed]

InitHandle ==
    /\ up = FALSE /\ files = NoFiles /\ settings = EmptyFile
    /\ should_reload = FALSE /\ list = <<>> /\ con = "open"
    /\ lastLoad = "none" /\ listening = FALSE /\ batch = <<>>
    /\ sent = <<>> /\ descriptions = <<>>
    /\ snapshot = <<>> /\ built = <<>> /\ scen = NoScenario
    /\ now = 0 /\ recent = <<>>
    /\ actions \in SeqsUpTo(HandleRules, MaxRules)
    /\ msg \in HandleMsgs
    /\ oracle \in [ProcessRules(actions) -> Outcomes]
    /\ hres = NotRun /\ proc = "none"

\* one call of bot.actions.handle(msg)
HandleCall ==
    /\ ~hres.ran
    /\ hres' = Ran(Handle(actions, msg, oracle, NoFunctions))
    /\ UNCHANGED <<botVars, msg, oracle, sent, proc, descriptions, observers>>

NextHandle == HandleCall

SpecHandle == InitHandle /\ [][NextHandle]_vars

---------------------------------------------------------------------------
(* Events and replies *)
\* con.own_client
OwnClient == "bot"

\* Event::TextMessage { mode, invoker, message }, Event::Poke { invoker,
\* message }, or another event
Event(kind, m, invoker, text) ==
    [kind |-> kind, mode |-> m, invoker |-> invoker, message |-> text]

Send(how, to, text) == [how |-> how, to |-> to, text |-> text]

\* respond: the messages it sends. inView: the server knows the client
Respond(m, to, inView, text) ==
    CASE m = Some("client") ->
            IF IsSome(to) /\ inView THEN <<Send("client", to, text)>> ELSE <<>>
      [] m = Some("channel") -> <<Send("channel", None, text)>>
      [] m = Some("server") -> <<Send("server", None, text)>>
      [] m = Some("unknown") -> <<>>
      [] m = None ->
            IF IsSome(to) /\ inView THEN <<Send("poke", to, text)>> ELSE <<>>

EventMode(e) == IF e.kind = "Poke" THEN None ELSE Some(e.mode)

EventMessage(e) ==
    Message(IF e.kind = "Poke" THEN "poke" ELSE e.mode, e.message, e.invoker)

\* faulty variant: a reply for every rule of the list that matches with a text
EventSendsPerRule(e, h, inView) ==
    LET hit == {i \in 1..Len(actions) :
                   /\ AllMatch(actions[i], EventMessage(e))
                   /\ IsSome(actions[i].reaction)
                   /\ Unwrap(actions[i].reaction).kind = "Plain"}
        RECURSIVE All(_)
        All(S) == IF S = {} THEN <<>>
                  ELSE LET i == CHOOSE x \in S : \A y \in S : x <= y
                       IN  Respond(EventMode(e), Some(e.invoker), inView,
                                   Unwrap(actions[i].reaction).s) \o All(S \ {i})
    IN  All(hit)

\* what handle_event sends for one event, handle having returned h
EventSends(e, h, inView) ==
    IF IsSome(h.ret)
    THEN Respond(EventMode(e), Some(e.invoker), inView, Unwrap(h.ret))
    ELSE <<>>

NoMessage == Message("none", <<>>, "none")

NoEffect(dyn) == Effect(None, dyn, FALSE, FALSE, FALSE)

\* what the builtins return and do for a message
BuiltinEffects(text, dyn, writeOk, pages) ==
    [k \in {<<BuiltinNames[i]>> : i \in 1..Len(BuiltinNames)} |->
        BuiltinRun(k[1], Prefix, text, dyn, writeOk, pages)]

\* the effect of the builtin handle executed, if it executed one
EffectOf(as, h, fx, dyn) ==
    LET ex == {x \in {h.executed[k] : k \in 1..Len(h.executed)} : IsBuiltin(as[x.idx])}
    IN  IF ex = {} THEN NoEffect(dyn)
        ELSE fx[Unwrap(as[(CHOOSE x \in ex : TRUE).idx].reaction).s]

---------------------------------------------------------------------------
(* The bot: files on disk, the process, its listener and its reloads *)
T_hi == <<"h", "i">>
T_add_foo_on_bar == <<".", "a", "d", "d", " ", "f", "o", "o", " ", "o", "n", " ",
                      "b", "a", "r">>
T_del_bar == <<".", "d", "e", "l", " ", "b", "a", "r">>
T_reload == <<".", "r", "e", "l", "o", "a", "d">>

D_bar_hi == ActionDefinition(Some(T_bar), None, None, Some(T_hi), None, None)
D_bar_foo == ActionDefinition(Some(T_bar), None, None, Some(T_foo), None, None)
D_baz_qux == ActionDefinition(Some(T_baz), None, None, Some(T_qux), None, None)
\* contains and regex: to_action fails
D_conflict == ActionDefinition(Some(T_baz), Some(T_baz), None, Some(T_qux), None, None)

\* what the files can be edited to from outside
SettingsFiles ==
    { FileMissing, FileGarbage,
      FileOk(ActionFile(<<>>, <<D_bar_hi, D_bar_foo>>)),
      FileOk(ActionFile(<<>>, <<D_bar_hi, D_conflict>>)),
      FileOk(ActionFile(<<"inc">>, <<>>)) }

IncFiles == { FileMissing, FileOk(ActionFile(<<>>, <<D_baz_qux>>)) }

DynFiles ==
    { FileMissing, FileGarbage,
      FileOk(ActionFile(<<>>, <<D_baz_qux>>)),
      FileOk(ActionFile(<<>>, <<D_conflict>>)) }

E_bar == Event("TextMessage", "channel", "alice", T_x_bar)
E_own == Event("TextMessage", "channel", OwnClient, T_x_bar)
E_poke == Event("Poke", "", "alice", T_bar)
E_add == Event("TextMessage", "client", "alice", T_add_foo_on_bar)
E_del == Event("TextMessage", "client", "alice", T_del_bar)
E_reload == Event("TextMessage", "server", "alice", T_reload)
E_other == Event("Other", "", "alice", <<>>)

\* the events sent to the bot
BotEvents == {E_bar, E_own, E_poke}

\* the most events of one call of the listener
MaxBatch == 2
\* the most rules the dynamic file grows to
MaxDyn == 2
\* the most rules bot.actions grows to
MaxActive == 10

Batches(events) == UNION {[1..k -> events] : k \in 1..MaxBatch}

Adds(b) == Cardinality({k \in 1..Len(b) : b[k] = E_add})

InitBot ==
    /\ up = FALSE
    /\ files \in [settings : SettingsFiles, dynamic : DynFiles, inc : IncFiles]
    /\ settings = EmptyFile /\ actions = <<>>
    /\ should_reload = FALSE /\ list = <<>> /\ con = "open"
    /\ lastLoad = "none" /\ listening = FALSE /\ batch = <<>>
    /\ msg = NoMessage /\ oracle = NoFunctions /\ hres = NotRun /\ sent = <<>>
    /\ proc = "none"
    /\ descriptions = <<>>
    /\ snapshot = <<>> /\ built = <<>> /\ scen = NoScenario
    /\ now = 0 /\ recent = <<>>

\* main: Bot::default(), then load_settings; an error ends the process
Start ==
    /\ ~up /\ ~listening
    /\ \E r \in {LoadSettings([settings |-> EmptyFile, actions |-> <<>>], files)} :
           /\ up' = r.ok
           /\ lastLoad' = IF r.ok THEN "ok" ELSE "failed"
           /\ settings' = IF r.ok THEN r.settings ELSE EmptyFile
           /\ actions' = IF r.ok THEN r.actions ELSE <<>>
           /\ list' = IF r.ok THEN InitList(r.actions) ELSE <<>>
           /\ built' = IF r.ok /\ r.complete THEN r.actions ELSE <<>>
    /\ should_reload' = FALSE /\ con' = "open" /\ scen' = NoScenario
    /\ UNCHANGED <<files, listening, batch, handleVars, descriptions, snapshot,
                   now, recent>>

\* load_settings run again on the running bot (the reload that the builtin
\* reload requests; main calls load_settings at startup only). It takes the
\* bot mutably, so it runs while the listener does not hold the read lock.
Reload ==
    /\ up /\ ~listening
    /\ \E r \in {LoadSettings([settings |-> settings, actions |-> actions], files)} :
           /\ Len(r.actions) <= MaxActive
           /\ lastLoad' = IF r.ok THEN "ok" ELSE "failed"
           /\ settings' = r.settings
           /\ actions' = r.actions
           /\ list' = IF r.ok THEN InitList(r.actions) ELSE list
           /\ built' = IF r.ok /\ r.complete THEN r.actions ELSE built
    /\ should_reload' = FALSE
    /\ UNCHANGED <<up, files, con, listening, batch, handleVars, descriptions,
                   snapshot, scen, now, recent>>

\* a reload was requested: it is run at the next quiescent point, before
\* further events are handled
ReloadDue == should_reload

\* the listener is called with events: it takes the read lock
BeginBatch(events) ==
    /\ up /\ ~listening /\ ~ReloadDue
    /\ \E b \in Batches(events) :
          /\ (IF files.dynamic.st = "ok" THEN Len(files.dynamic.af.on_message) ELSE 0)
                + Adds(b) <= MaxDyn
          /\ batch' = b
    /\ listening' = TRUE
    /\ snapshot' = actions
    /\ UNCHANGED <<up, files, settings, actions, should_reload, list, con, lastLoad,
                   handleVars, descriptions, built, scen, now, recent>>

\* no active rule answers the message with the word bar, and none would
\* after a reload
NoRuleForBar ==
    \E r \in {LoadSettings([settings |-> settings, actions |-> actions], files)} :
        /\ r.ok
        /\ \A i \in 1..Len(actions) : ~AllMatch(actions[i], EventMessage(E_bar))
        /\ \A i \in 1..Len(r.actions) : ~AllMatch(r.actions[i], EventMessage(E_bar))

\* the scenario after event e, for which handle returned h
ScenStep(sc, e, h, last) ==
    IF e = E_add /\ last /\ NoRuleForBar
    THEN Scenario(1, None, None)
    ELSE IF sc.stage = 1 /\ e = E_bar THEN Scenario(2, h.ret, None)
    ELSE IF sc.stage = 2 /\ e = E_del /\ last THEN Scenario(3, sc.r1, None)
    ELSE IF sc.stage = 3 /\ e = E_bar THEN Scenario(4, sc.r1, h.ret)
    ELSE NoScenario

\* faulty variant: the events of the own client are handled like the others
HandleEventOfOwnClient(inView, writeOk) ==
    LET e == Head(batch)
    IN  IF e.kind = "Other"
        THEN /\ batch' = Tail(batch)
             /\ msg' = NoMessage /\ hres' = NotRun /\ sent' = <<>>
             /\ scen' = NoScenario
             /\ UNCHANGED <<up, files, should_reload, con>>
        ELSE \E m \in {EventMessage(e)} :
             \E fx \in {BuiltinEffects(m.message, files.dynamic, writeOk, list)} :
             \E h \in {Handle(actions, m, oracle, [k \in DOMAIN fx |-> fx[k].ret])} :
             \E eff \in {EffectOf(actions, h, fx, files.dynamic)} :
                 /\ up' = ~eff.panic
                 /\ batch' = Tail(batch)
                 /\ msg' = m /\ hres' = Ran(h)
                 /\ sent' = EventSends(e, h, inView)
                 /\ files' = [files EXCEPT !.dynamic = eff.dynamic]
                 /\ should_reload' = (should_reload \/ eff.reload)
                 /\ con' = IF eff.quit THEN "removed" ELSE con
                 /\ scen' = ScenStep(scen, e, h, Tail(batch) = <<>>)

\* one iteration of the loop of handle_event, on the next event of the batch
HandleEvent(inView, writeOk) ==
    LET e == Head(batch)
    IN  IF e.kind = "Other" \/ e.invoker = OwnClient
        THEN /\ batch' = Tail(batch)
             /\ msg' = NoMessage /\ hres' = NotRun /\ sent' = <<>>
             /\ scen' = NoScenario
             /\ UNCHANGED <<up, files, should_reload, con>>
        ELSE \E m \in {EventMessage(e)} :
             \E fx \in {BuiltinEffects(m.message, files.dynamic, writeOk, list)} :
             \E h \in {Handle(actions, m, oracle, [k \in DOMAIN fx |-> fx[k].ret])} :
             \E eff \in {EffectOf(actions, h, fx, files.dynamic)} :
                 /\ up' = ~eff.panic
                 /\ batch' = Tail(batch)
                 /\ msg' = m /\ hres' = Ran(h)
                 /\ sent' = EventSends(e, h, inView)
                 /\ files' = [files EXCEPT !.dynamic = eff.dynamic]
                 /\ should_reload' = (should_reload \/ eff.reload)
                 /\ con' = IF eff.quit THEN "removed" ELSE con
                 /\ scen' = ScenStep(scen, e, h, Tail(batch) = <<>>)

HandleNext ==
    /\ up /\ listening /\ batch # <<>>
    /\ \E inView \in BOOLEAN, writeOk \in BOOLEAN : HandleEvent(inView, writeOk)
    /\ UNCHANGED <<settings, actions, list, lastLoad, listening, oracle, proc,
                   descriptions, snapshot, built, now, recent>>

\* handle_event returns: the listener drops the read lock
EndBatch ==
    /\ listening /\ (batch = <<>> \/ ~up)
    /\ listening' = FALSE /\ batch' = <<>>
    /\ msg' = NoMessage /\ hres' = NotRun /\ sent' = <<>> /\ snapshot' = <<>>
    /\ UNCHANGED <<up, files, settings, actions, should_reload, list, con, lastLoad,
                   oracle, proc, descriptions, built, scen, now, recent>>

\* the files are changed from outside
EditFile(name, contents) ==
    /\ ~listening
    /\ \E f \in contents \ {files[name]} : files' = [files EXCEPT ![name] = f]
    /\ scen' = NoScenario
    /\ UNCHANGED <<up, settings, actions, should_reload, list, con, lastLoad,
                   listening, batch, handleVars, descriptions, snapshot, built, now, recent>>

Next ==
    \/ Start
    \/ Reload
    \/ BeginBatch(BotEvents)
    \/ HandleNext
    \/ EndBatch
    \/ EditFile("settings", SettingsFiles)
    \/ EditFile("dynamic", DynFiles)
    \/ EditFile("inc", IncFiles)

Spec == InitBot /\ [][Next]_vars

---------------------------------------------------------------------------
(* The bot and its dynamic store: default settings, the commands sent *)
StoreEvents == {E_bar, E_add, E_del, E_reload, E_other}

StoreFiles == {FileMissing, FileGarbage}

InitStore ==
    /\ up = FALSE
    /\ files \in [settings : {FileMissing}, dynamic : StoreFiles, inc : {FileMissing}]
    /\ settings = EmptyFile /\ actions = <<>>
    /\ should_reload = FALSE /\ list = <<>> /\ con = "open"
    /\ lastLoad = "none" /\ listening = FALSE /\ batch = <<>>
    /\ msg = NoMessage /\ oracle = NoFunctions /\ hres = NotRun /\ sent = <<>>
    /\ proc = "none"
    /\ descriptions = <<>>
    /\ snapshot = <<>> /\ built = <<>> /\ scen = NoScenario
    /\ now = 0 /\ recent = <<>>

NextStore ==
    \/ Start
    \/ Reload
    \/ BeginBatch(StoreEvents)
    \/ HandleNext
    \/ EndBatch
    \/ EditFile("dynamic", StoreFiles)

SpecStore == InitStore /\ [][NextStore]_vars

---------------------------------------------------------------------------
(* The bot and the clock: the times of its replies *)
\* the rate limiter of the settings: at most MaxEvents replies in Window
MaxEvents == 2
Window == 2

\* the clock stops at MaxTime
MaxTime == 4

RateEvents == {E_bar, E_own}

RateSettings == FileOk(ActionFile(<<>>, <<D_bar_hi, D_bar_foo>>))

\* the last n elements of s
LastN(s, n) == IF Len(s) <= n THEN s ELSE SubSeq(s, Len(s) - n + 1, Len(s))

\* the replies sent less than Window before now
InWindow == {i \in 1..Len(recent) : now - recent[i] < Window}

InitRate ==
    /\ up = FALSE
    /\ files = [settings |-> RateSettings, dynamic |-> FileMissing, inc |-> FileMissing]
    /\ settings = EmptyFile /\ actions = <<>>
    /\ should_reload = FALSE /\ list = <<>> /\ con = "open"
    /\ lastLoad = "none" /\ listening = FALSE /\ batch = <<>>
    /\ msg = NoMessage /\ oracle = NoFunctions /\ hres = NotRun /\ sent = <<>>
    /\ proc = "none"
    /\ descriptions = <<>>
    /\ snapshot = <<>> /\ built = <<>> /\ scen = NoScenario
    /\ now = 0 /\ recent = <<>>

\* one iteration of the loop of handle_event; the time of a reply is kept
HandleTimed ==
    /\ up /\ listening /\ batch # <<>>
    /\ \E inView \in BOOLEAN, writeOk \in BOOLEAN : HandleEvent(inView, writeOk)
    /\ recent' = IF sent' # <<>> THEN LastN(Append(recent, now), MaxEvents + 1)
                  ELSE recent
    /\ UNCHANGED <<settings, actions, list, lastLoad, listening, oracle, proc,
                   descriptions, snapshot, built, now>>

\* time passes
Tick ==
    /\ now < MaxTime
    /\ now' = now + 1
    /\ UNCHANGED <<botVars, handleVars, descriptions, snapshot, built, scen, recent>>

NextRate ==
    \/ Start
    \/ BeginBatch(RateEvents)
    \/ HandleTimed
    \/ EndBatch
    \/ Tick

SpecRate == InitRate /\ [][NextRate]_vars

---------------------------------------------------------------------------
(* init_list on its own: the pages of every set of lines of the pool *)
Line(c, n) == [j \in 1..n |-> c]

\* lines around half the page, around the whole page, and short ones
LinePool ==
    { Line("a", 1), Line("b", 2), Line("c", 449), Line("d", 450), Line("e", 451),
      Line("f", 900), Line("g", 901) }

InitLines ==
    /\ descriptions \in {SortSet(S) : S \in SUBSET LinePool}
    /\ list = <<>>
    /\ up = FALSE /\ files = NoFiles
    /\ settings = EmptyFile /\ actions = <<>>
    /\ should_reload = FALSE /\ con = "open"
    /\ lastLoad = "none" /\ listening = FALSE /\ batch = <<>>
    /\ msg = NoMessage /\ oracle = NoFunctions /\ hres = NotRun /\ sent = <<>>
    /\ proc = "none"
    /\ snapshot = <<>> /\ built = <<>> /\ scen = NoScenario
    /\ now = 0 /\ recent = <<>>

\* the grouping loop of init_list on the sorted lines
GroupLines ==
    /\ list = <<>>
    /\ list' = GroupPages(descriptions)
    /\ UNCHANGED <<up, files, settings, actions, should_reload, con, lastLoad,
                   listening, batch, handleVars, descriptions, observers>>

\* the list commands sent, with the page number each asks for (0: none)
ListAsk(text, n) == [text |-> text, n |-> n]

ListAsks ==
    { ListAsk(<<".", "l", "i", "s", "t">>, 0),
      ListAsk(<<".", "l", "i", "s", "t", " ", "x">>, 0),
      ListAsk(<<".", "l", "i", "s", "t", " ", "0">>, 0),
      ListAsk(<<".", "l", "i", "s", "t", " ", "1">>, 1),
      ListAsk(<<".", "l", "i", "s", "t", " ", "2">>, 2),
      ListAsk(<<".", "l", "i", "s", "t", " ", "3">>, 3),
      ListAsk(<<".", "l", "i", "s", "t", " ", "1", "2">>, 12) }

\* one call of builtins::list on the pages built
ListCall ==
    /\ list # <<>> /\ ~hres.ran
    /\ \E a \in ListAsks :
          /\ msg' = Message("channel", a.text, 2)
          /\ \E eff \in {List(Prefix, list, a.text, files.dynamic)} :
                hres' = [ran |-> TRUE, ret |-> eff.ret,
                         tested |-> <<>>, executed |-> <<>>]
    /\ UNCHANGED <<botVars, oracle, sent, proc, descriptions, observers>>

NextList == GroupLines \/ ListCall

SpecList == InitLines /\ [][NextList]_vars

---------------------------------------------------------------------------
(* The bot and the processes of its Command and Shell reactions: execute   *)
(* calls Command::output, which returns when the process has exited.       *)
D_bar_cmd == ActionDefinition(Some(T_bar), None, None, None, Some(T_cmd), None)

ProcSettings == FileOk(ActionFile(<<>>, <<D_bar_cmd, D_bar_hi>>))

ProcEvents == {E_bar, E_own, E_poke}

\* handling event e reaches a Command or Shell reaction
RunsProcess(e) ==
    /\ e.kind # "Other" /\ e.invoker # OwnClient
    /\ \E fx \in {BuiltinEffects(e.message, files.dynamic, TRUE, list)} :
       \E h \in {Handle(actions, EventMessage(e), NoFunctions,
                         [k \in DOMAIN fx |-> fx[k].ret])} :
          \E k \in 1..Len(h.executed) : IsProcess(actions[h.executed[k].idx])

InitProc ==
    /\ up = FALSE
    /\ files = [settings |-> ProcSettings, dynamic |-> FileMissing, inc |-> FileMissing]
    /\ settings = EmptyFile /\ actions = <<>>
    /\ should_reload = FALSE /\ list = <<>> /\ con = "open"
    /\ lastLoad = "none" /\ listening = FALSE /\ batch = <<>>
    /\ msg = NoMessage /\ oracle = NoFunctions /\ hres = NotRun /\ sent = <<>>
    /\ proc = "none"
    /\ descriptions = <<>>
    /\ snapshot = <<>> /\ built = <<>> /\ scen = NoScenario
    /\ now = 0 /\ recent = <<>>

\* handle_event calls handle, which reaches a Command or Shell reaction:
\* execute starts the process and waits in Command::output. oracle holds
\* how the processes of this call will end.
ProcSpawn ==
    /\ up /\ listening /\ batch # <<>> /\ proc = "none"
    /\ RunsProcess(Head(batch))
    /\ proc' = "running"
    /\ msg' = EventMessage(Head(batch))
    /\ oracle' \in [ProcessRules(actions) -> Outcomes]
    /\ hres' = NotRun /\ sent' = <<>>
    /\ UNCHANGED <<botVars, descriptions, observers>>

\* the process has exited: Command::output returns, and execute, handle and
\* the iteration of handle_event run to their end
ProcExit ==
    /\ up /\ listening /\ batch # <<>> /\ proc = "running"
    /\ \E inView \in BOOLEAN, writeOk \in BOOLEAN : HandleEvent(inView, writeOk)
    /\ proc' = "none"
    /\ UNCHANGED <<settings, actions, list, lastLoad, listening, oracle,
                   descriptions, snapshot, built, now, recent>>

\* an iteration of handle_event that runs no process
HandleDirect ==
    /\ batch # <<>> /\ proc = "none"
    /\ ~RunsProcess(Head(batch))
    /\ HandleNext

NextProc ==
    \/ Start
    \/ BeginBatch(ProcEvents)
    \/ ProcSpawn
    \/ ProcExit
    \/ HandleDirect
    \/ EndBatch

SpecProc == InitProc /\ [][NextProc]_vars

---------------------------------------------------------------------------
(* Literal triggers on their own: a rule built by to_action from a         *)
(* definition with contains = t, and handle on texts that hold t.          *)
Triggers ==
    { <<"t">>, <<"q", "u", "x">>, <<"a", "b">>, <<"a", " ", "b">>, <<"a", ".", "b">>,
      <<"a", "1", "b">>, <<"b", "!">>, <<"!", "b">>, <<"b", ".">>, <<".", "b">>,
      <<"b", "1">>, <<"1", "b">>, <<"b", "_">>, <<"?", "b">>, <<"b", "-", "?">> }

T_foo_ == <<"f", "o", "o", " ">>
T__bar == <<" ", "b", "a", "r">>

\* t as a word of its own, glued to the word before it, glued to the word
\* after it, and both ("foo t bar", "foot bar", "foo tbar", "foot tbar")
Spaced(t) == T_foo_ \o t \o T__bar
GluedLeft(t) == T_foo \o t \o T__bar
GluedRight(t) == T_foo_ \o t \o T_bar
GluedBoth(t) == T_foo \o t \o <<" ">> \o t \o T_bar

TriggerTexts(t) == {Spaced(t), GluedLeft(t), GluedRight(t), GluedBoth(t)}

D_trigger(t) == ActionDefinition(Some(t), None, None, Some(T_hi), None, None)

InitTrigger ==
    /\ \E t \in Triggers :
          /\ settings = ActionFile(<<>>, <<D_trigger(t)>>)
          /\ msg \in {Message("channel", x, 2) : x \in TriggerTexts(t)}
    /\ actions = <<>> /\ hres = NotRun /\ oracle = NoFunctions
    /\ up = FALSE /\ files = NoFiles
    /\ should_reload = FALSE /\ list = <<>> /\ con = "open"
    /\ lastLoad = "none" /\ listening = FALSE /\ batch = <<>>
    /\ sent = <<>> /\ proc = "none" /\ descriptions = <<>>
    /\ snapshot = <<>> /\ built = <<>> /\ scen = NoScenario
    /\ now = 0 /\ recent = <<>>

\* load_actions on the definitions of the settings
BuildRules ==
    /\ actions = <<>>
    /\ \E r \in {LoadActions(<<>>, settings, files)} :
          r.ok /\ actions' = r.actions
    /\ UNCHANGED <<up, files, settings, should_reload, list, con, lastLoad,
                   listening, batch, handleVars, descriptions, observers>>

\* handle on the rules built
MatchCall == actions # <<>> /\ HandleCall

NextTrigger == BuildRules \/ MatchCall

SpecTrigger == InitTrigger /\ [][NextTrigger]_vars

---------------------------------------------------------------------------
(* The bot and the builtin quit *)
T_quit == <<".", "q", "u", "i", "t">>
T_help == <<".", "h", "e", "l", "p">>

E_quit == Event("TextMessage", "channel", "alice", T_quit)
E_help == Event("TextMessage", "channel", "alice", T_help)

QuitEvents == {E_quit, E_help, E_own, E_poke}

InitQuit ==
    /\ up = FALSE
    /\ files \in [settings : {FileMissing}, dynamic : StoreFiles, inc : {FileMissing}]
    /\ settings = EmptyFile /\ actions = <<>>
    /\ should_reload = FALSE /\ list = <<>> /\ con = "open"
    /\ lastLoad = "none" /\ listening = FALSE /\ batch = <<>>
    /\ msg = NoMessage /\ oracle = NoFunctions /\ hres = NotRun /\ sent = <<>>
    /\ proc = "none"
    /\ descriptions = <<>>
    /\ snapshot = <<>> /\ built = <<>> /\ scen = NoScenario
    /\ now = 0 /\ recent = <<>>

\* the listener is called while the connection is there; con.remove() takes
\* the connection away, and with it the listener
Deliver == con = "open" /\ BeginBatch(QuitEvents)

NextQuit ==
    \/ Start
    \/ Reload
    \/ Deliver
    \/ HandleNext
    \/ EndBatch
    \/ EditFile("dynamic", StoreFiles)

SpecQuit == InitQuit /\ [][NextQuit]_vars

---------------------------------------------------------------------------
(* The bot with a rule that has no matcher *)
D_all == ActionDefinition(None, None, None, None, None, None)
D_all_hi == ActionDefinition(None, None, None, Some(T_hi), None, None)
D_all_cmd == ActionDefinition(None, None, None, None, Some(T_cmd), None)

AllSettings ==
    {FileOk(ActionFile(<<>>, defs)) :
        defs \in {<<d>> : d \in {D_all, D_all_hi, D_all_cmd}}
                 \cup {<<D_bar_foo, d>> : d \in {D_all, D_all_hi, D_all_cmd}}}

AllEvents == {E_bar, E_help, E_poke}

InitAll ==
    /\ up = FALSE
    /\ files \in [settings : AllSettings, dynamic : StoreFiles, inc : {FileMissing}]
    /\ settings = EmptyFile /\ actions = <<>>
    /\ should_reload = FALSE /\ list = <<>> /\ con = "open"
    /\ lastLoad = "none" /\ listening = FALSE /\ batch = <<>>
    /\ msg = NoMessage /\ oracle = NoFunctions /\ hres = NotRun /\ sent = <<>>
    /\ proc = "none"
    /\ descriptions = <<>>
    /\ snapshot = <<>> /\ built = <<>> /\ scen = NoScenario
    /\ now = 0 /\ recent = <<>>

NextAll ==
    \/ Start
    \/ Reload
    \/ BeginBatch(AllEvents)
    \/ ProcSpawn
    \/ ProcExit
    \/ HandleDirect
    \/ EndBatch
    \/ EditFile("dynamic", StoreFiles)

SpecAll == InitAll /\ [][NextAll]_vars

---------------------------------------------------------------------------
(* The bot and sequences of the command add *)
T_add_qux_on_bar == <<".", "a", "d", "d", " ", "q", "u", "x", " ", "o", "n", " ",
                      "b", "a", "r">>

D_bar_qux == ActionDefinition(Some(T_bar), None, None, Some(T_qux), None, None)

E_add_qux == Event("TextMessage", "client", "alice", T_add_qux_on_bar)

AddEvents == {E_add, E_add_qux, E_bar}

AddStores ==
    {FileMissing, FileGarbage, FileOk(ActionFile(<<>>, <<D_baz_qux>>))}

InitAdd ==
    /\ up = FALSE
    /\ files \in [settings : {FileMissing}, dynamic : AddStores, inc : {FileMissing}]
    /\ settings = EmptyFile /\ actions = <<>>
    /\ should_reload = FALSE /\ list = <<>> /\ con = "open"
    /\ lastLoad = "none" /\ listening = FALSE /\ batch = <<>>
    /\ msg = NoMessage /\ oracle = NoFunctions /\ hres = NotRun /\ sent = <<>>
    /\ proc = "none"
    /\ descriptions = <<>>
    /\ snapshot = <<>> /\ built = <<>> /\ scen = NoScenario
    /\ now = 0 /\ recent = <<>>

NextAdd ==
    \/ Start
    \/ Reload
    \/ BeginBatch(AddEvents)
    \/ HandleNext
    \/ EndBatch
    \/ EditFile("dynamic", AddStores)

SpecAdd == InitAdd /\ [][NextAdd]_vars

---------------------------------------------------------------------------
(* to_action on every combination of the fields of a definition *)
\* a pattern Regex::new rejects: a group that is not closed
T_open == <<"(">>
T_ba_ == <<"b", "a", ".">>

Definitions ==
    {ActionDefinition(c, r, ch, re, co, sh) :
        c \in {None, Some(T_bar)},
        r \in {None, Some(T_ba_), Some(T_open)},
        ch \in {None, Some("channel"), Some("poke"), Some("whisper")},
        re \in {None, Some(T_hi)},
        co \in {None, Some(T_cmd)},
        sh \in {None, Some(T_sh)}}

InitDef ==
    /\ settings \in {ActionFile(<<>>, <<d>>) : d \in Definitions}
    /\ msg = Message("channel", T_x_bar, 2)
    /\ actions = <<>> /\ hres = NotRun /\ oracle = NoFunctions
    /\ up = FALSE /\ files = NoFiles
    /\ should_reload = FALSE /\ list = <<>> /\ con = "open"
    /\ lastLoad = "none" /\ listening = FALSE /\ batch = <<>>
    /\ sent = <<>> /\ proc = "none" /\ descriptions = <<>>
    /\ snapshot = <<>> /\ built = <<>> /\ scen = NoScenario
    /\ now = 0 /\ recent = <<>>

\* load_actions on the definitions of the settings: the rules are there
\* only when every definition was built
LoadDefs ==
    /\ lastLoad = "none"
    /\ \E r \in {LoadActions(<<>>, settings, files)} :
          /\ lastLoad' = IF r.ok THEN "ok" ELSE "failed"
          /\ actions' = IF r.ok THEN r.actions ELSE actions
    /\ oracle' \in [ProcessRules(actions') -> Outcomes]
    /\ UNCHANGED <<up, files, settings, should_reload, list, con,
                   listening, batch, msg, hres, sent, proc, descriptions, observers>>

\* handle on the rules built
MatchDef == lastLoad = "ok" /\ HandleCall

NextDef == LoadDefs \/ MatchDef

SpecDef == InitDef /\ [][NextDef]_vars

---------------------------------------------------------------------------
(* The bot and the commands add and del on every small dynamic store *)
T_del_baz == <<".", "d", "e", "l", " ", "b", "a", "z">>

\* a rule with a pattern and no literal trigger
D_re_bar == ActionDefinition(None, Some(T_bar), None, Some(T_hi), None, None)

E_del_baz == Event("TextMessage", "channel", "alice", T_del_baz)

CmdEvents == {E_add, E_del, E_del_baz}

CmdDefs == {D_bar_hi, D_baz_qux, D_re_bar}

\* the dynamic stores of at most MaxDyn rules, with and without an include
CmdStores ==
    {FileMissing, FileGarbage}
    \cup {FileOk(ActionFile(inc, defs)) :
             inc \in {<<>>, <<"inc">>}, defs \in SeqsUpTo(CmdDefs, MaxDyn)}

InitCmd ==
    /\ up = FALSE
    /\ files \in [settings : {FileMissing}, dynamic : CmdStores, inc : {FileMissing}]
    /\ settings = EmptyFile /\ actions = <<>>
    /\ should_reload = FALSE /\ list = <<>> /\ con = "open"
    /\ lastLoad = "none" /\ listening = FALSE /\ batch = <<>>
    /\ msg = NoMessage /\ oracle = NoFunctions /\ hres = NotRun /\ sent = <<>>
    /\ proc = "none"
    /\ descriptions = <<>>
    /\ snapshot = <<>> /\ built = <<>> /\ scen = NoScenario
    /\ now = 0 /\ recent = <<>>

NextCmd ==
    \/ Start
    \/ Reload
    \/ BeginBatch(CmdEvents)
    \/ HandleNext
    \/ EndBatch
    \/ EditFile("dynamic", CmdStores)

SpecCmd == InitCmd /\ [][NextCmd]_vars

---------------------------------------------------------------------------
(* Properties of ActionList::handle (SpecHandle) *)

\* what the reaction of rule i yields for the message
Yield(i) == Execute(Unwrap(actions[i].reaction), OutcomeOf(oracle, i), NoFunctions)

\* rule i matches and its reaction yields a text that is not empty
Replies(i) ==
    /\ AllMatch(actions[i], msg)
    /\ IsSome(actions[i].reaction)
    /\ IsSome(Yield(i)) /\ Unwrap(Yield(i)) # <<>>

\* rule i matches and is conclusive: it has no reaction, or its reaction
\* yields a text (empty or not)
Conclusive(i) ==
    /\ AllMatch(actions[i], msg)
    /\ (IsSome(actions[i].reaction) => IsSome(Yield(i)))

First(P(_)) == CHOOSE i \in 1..Len(actions) : P(i) /\ \A j \in 1..(i - 1) : ~P(j)

Range(s) == {s[k] : k \in 1..Len(s)}

ExecutedRules == {e.idx : e \in Range(hres.executed)}

\* C1 as stated: handle returns the reply of the first rule whose matchers
\* all hold and whose reaction yields a text that is not empty, and
\* evaluates no rule after it.
C1_FirstReplyingRuleWins ==
    (hres.ran /\ \E i \in 1..Len(actions) : Replies(i)) =>
        LET i == First(Replies)
        IN  /\ hres.ret = Yield(i)
            /\ \A j \in Range(hres.tested) \cup ExecutedRules : j <= i

\* C1 amended: handle returns at the first rule whose matchers all hold and
\* which is conclusive (no reaction, or a reaction that yields a text): the
\* text if it is not empty, None otherwise; exactly the rules up to that one
\* are evaluated. Without such a rule every rule is evaluated and handle
\* returns None.
C1_FirstConclusiveRuleWins ==
    hres.ran =>
        IF \E i \in 1..Len(actions) : Conclusive(i)
        THEN LET i == First(Conclusive)
             IN  /\ hres.ret = (IF Replies(i) THEN Yield(i) ELSE None)
                 /\ Range(hres.tested) = 1..i
                 /\ ExecutedRules \subseteq 1..i
        ELSE /\ hres.ret = None
             /\ Range(hres.tested) = 1..Len(actions)

\* a reply came from the second rule or a later one, after a rule that
\* matched inconclusively, and a rule after it matches as well
C1_Witness ==
    /\ hres.ran /\ IsSome(hres.ret)
    /\ \E i \in 2..Len(actions) :
          /\ i = First(Conclusive) /\ Replies(i)
          /\ \E j \in 1..(i - 1) : AllMatch(actions[j], msg)
          /\ \E j \in (i + 1)..Len(actions) : Replies(j)

\* C2: when the evaluation reaches a rule whose matchers all hold and which
\* has no reaction, handle returns None and evaluates no later rule.
C2_SilentRuleStops ==
    hres.ran =>
        \A i \in Range(hres.tested) :
            (AllMatch(actions[i], msg) /\ actions[i].reaction = None) =>
                /\ hres.ret = None
                /\ \A j \in Range(hres.tested) \cup ExecutedRules : j <= i

\* a rule without reaction stopped the evaluation before a rule that would
\* have replied
C2_Witness ==
    /\ hres.ran
    /\ \E i \in Range(hres.tested) :
          /\ AllMatch(actions[i], msg) /\ actions[i].reaction = None
          /\ \E j \in (i + 1)..Len(actions) : Replies(j)

\* the executed Command/Shell rules whose process ran and exited non-zero
ExitedNonZero ==
    {e \in Range(hres.executed) :
        /\ IsProcess(actions[e.idx])
        /\ OutcomeOf(oracle, e.idx).spawned
        /\ OutcomeOf(oracle, e.idx).status # 0}

\* C3: a Command or Shell reaction whose process exits non-zero returns
\* None, and handle goes on with the next rule.
C3_NonZeroExitFallsThrough ==
    hres.ran =>
        \A e \in ExitedNonZero :
            /\ e.ret = None
            /\ e.idx < Len(actions) => (e.idx + 1) \in Range(hres.tested)
            /\ \A j \in (e.idx + 1)..Len(actions) :
                  (Replies(j) /\ \A k \in (e.idx + 1)..(j - 1) : ~Conclusive(k))
                      => hres.ret = Yield(j)

\* a process exited non-zero and a later rule produced the reply
C3_Witness ==
    /\ hres.ran /\ IsSome(hres.ret)
    /\ \E e \in ExitedNonZero :
          \E f \in Range(hres.executed) : f.idx > e.idx /\ hres.ret = f.ret

\* no reply is sent for what handle returned, whatever the event
NoReply ==
    \A e \in {E_bar, E_poke, E_add} : \A inView \in BOOLEAN :
        EventSends(e, hres, inView) = <<>>

\* C15: a reaction that returns Some("") ends the evaluation: handle
\* returns None, no reply is sent and no later rule is evaluated.
C15_EmptyResultSuppresses ==
    hres.ran =>
        \A e \in Range(hres.executed) :
            e.ret = Some(<<>>) =>
                /\ hres.ret = None /\ NoReply
                /\ \A j \in Range(hres.tested) \cup ExecutedRules : j <= e.idx

\* a reaction returned Some("") before a rule that would have replied
C15_Witness ==
    /\ hres.ran
    /\ \E e \in Range(hres.executed) :
          /\ e.ret = Some(<<>>)
          /\ \E j \in (e.idx + 1)..Len(actions) : Replies(j)

\* the executed Command/Shell rules whose process could not be spawned, or
\* exited with status zero and output that is not UTF-8
FailedToRun ==
    {e \in Range(hres.executed) :
        /\ IsProcess(actions[e.idx])
        /\ \/ ~OutcomeOf(oracle, e.idx).spawned
           \/ OutcomeOf(oracle, e.idx).status = 0 /\ ~OutcomeOf(oracle, e.idx).utf8}

\* C16: a process that cannot be spawned, or that exits with status zero
\* and output that cannot be decoded, makes execute return Some(""): no
\* reply, and no later rule is evaluated.
C16_FailedProcessSuppresses ==
    hres.ran =>
        \A e \in FailedToRun :
            /\ e.ret = Some(<<>>)
            /\ hres.ret = None /\ NoReply
            /\ \A j \in Range(hres.tested) \cup ExecutedRules : j <= e.idx

\* a process failed to run before a rule that would have replied
C16_Witness ==
    /\ hres.ran
    /\ \E e \in FailedToRun : \E j \in (e.idx + 1)..Len(actions) : Replies(j)

---------------------------------------------------------------------------
(* Properties of the bot (Spec) *)

\* the rules of the active list whose matchers all hold for the message
\* being handled
Matching == {i \in 1..Len(actions) : AllMatch(actions[i], msg)}

\* C4: for every text message or poke handled, at most one reply is sent,
\* whatever the number of rules that match.
C4_AtMostOneReply == Len(sent) <= 1

\* an event was answered while two rules of the list matched its message
C4_Witness ==
    listening /\ hres.ran /\ Len(sent) = 1 /\ Cardinality(Matching) >= 2

\* the rules a load is to publish from the settings s and the files fs:
\* the rules of the settings, the rules of the dynamic file, the builtins
StaticDynamicBuiltins(s, fs) ==
    BuiltinsInit(
        LoadActions(LoadActions(<<>>, s, fs).actions,
                    IF fs.dynamic.st = "ok" THEN fs.dynamic.af ELSE EmptyFile,
                    fs).actions,
        Prefix)

\* C6 as stated: after every load or reload that succeeds the active list
\* is the static rules, then the dynamic rules, then the builtins.
C6_BuiltinsLast ==
    [][((Start \/ Reload) /\ lastLoad' = "ok") =>
           actions' = StaticDynamicBuiltins(settings', files')]_vars

\* a load succeeded and the active list holds no builtin
C6_Witness ==
    /\ up /\ lastLoad = "ok" /\ actions # <<>>
    /\ \A i \in 1..Len(actions) : ~IsBuiltin(actions[i])

\* a reload of the running bot would fail: the settings or the dynamic
\* file cannot be parsed, or one of their rules cannot be built
ReloadFails ==
    \E r \in {LoadSettings([settings |-> settings, actions |-> actions], files)} :
        ~r.ok \/ ~r.complete

\* C7 as stated: a reload that fails is reported and leaves the active
\* list as it was before.
C7_FailedReloadKeepsRuleSet ==
    [][(Reload /\ ReloadFails) => (actions' = actions /\ lastLoad' = "failed")]_vars

\* a reload failed and left more rules active than the last build had
C7_Witness ==
    up /\ lastLoad = "failed" /\ built # <<>> /\ Len(actions) > Len(built)

\* C8 as stated: while the events of a call are handled the active list is
\* the one the call started with, and it is the list of one complete build.
C8_OneCompleteSnapshot == listening => (actions = snapshot /\ actions = built)

\* a message was matched against a list that no complete build produced
C8_Witness == listening /\ hres.ran /\ actions = snapshot /\ actions # built

---------------------------------------------------------------------------
(* Properties of the dynamic store (SpecStore) *)

\* C9 as stated: with no rule for bar, after the command add foo on bar a
\* message with the word bar is answered foo, and after the command del
\* bar the same message gets no reply.
C9_AddThenDel ==
    /\ (scen.stage >= 2 => scen.r1 = Some(T_foo))
    /\ (scen.stage = 4 => scen.r2 = None)

\* the message after the command add got no reply
C9_Witness == scen.stage = 2 /\ scen.r1 = None

---------------------------------------------------------------------------
(* Properties of the rate of the replies (SpecRate) *)

\* C5 as stated: a matched message is answered when fewer than MaxEvents
\* replies were sent within the window before it, and is dropped without a
\* reply otherwise.
C5_RateLimited ==
    [][(HandleTimed /\ IsSome(hres'.ret)) =>
           ((sent' # <<>>) <=> (Cardinality(InWindow) < MaxEvents))]_vars

\* more than MaxEvents replies were sent within one window
C5_Witness == Cardinality(InWindow) > MaxEvents

---------------------------------------------------------------------------
(* Properties of the pages of the listing (SpecList) *)
RECURSIVE SumLen(_)
SumLen(ms) == IF ms = <<>> THEN 0 ELSE Len(Head(ms)) + SumLen(Tail(ms))

\* C10 as stated: every page init_list builds is within the budget of 900
\* characters, and lines that together exceed the budget give more than
\* one page.
C10_PagesWithinBudget ==
    list # <<>> =>
        /\ \A p \in 1..Len(list) : Len(list[p]) <= PageBudget
        /\ SumLen(descriptions) > PageBudget => Len(list) > 1

\* a page over the budget that holds two lines, each under the budget
C10_Witness ==
    /\ list # <<>>
    /\ \A k \in 1..Len(descriptions) : Len(descriptions[k]) < PageBudget
    /\ \E p \in 1..Len(list) : Len(list[p]) > PageBudget

---------------------------------------------------------------------------
(* Properties of the processes of the reactions (SpecProc) *)

\* C11 as stated: while the process of a reaction has not exited, the
\* listener can be called with new events and they are handled.
C11_ProcessBlocksOnlyWorker == (proc = "running") => ENABLED BeginBatch(ProcEvents)

\* a process runs and the listener is still in the call that started it,
\* with an event of that call waiting behind it
C11_Witness == proc = "running" /\ listening /\ Len(batch) > 1

---------------------------------------------------------------------------
(* Properties of handle_event (Spec) *)

\* C12: an event whose sender is the own client is ignored: handle is not
\* called for it and no reply is sent.
C12_OwnEventsIgnored ==
    [][(HandleNext /\ Head(batch).invoker = OwnClient) =>
           (msg' = NoMessage /\ hres' = NotRun /\ sent' = <<>>
            /\ UNCHANGED <<files, should_reload, con>>)]_vars

\* the last event of a call came from the own client and was passed over,
\* while a rule of the list matches its message
C12_Witness ==
    /\ listening /\ batch = <<>> /\ msg = NoMessage /\ hres = NotRun /\ sent = <<>>
    /\ \E i \in 1..Len(actions) : AllMatch(actions[i], EventMessage(E_own))

---------------------------------------------------------------------------
(* Properties of the literal triggers (SpecTrigger) *)

\* the literal trigger of the rule
Trigger == Unwrap(settings.on_message[1].contains)

AlphabeticStart == IsAlphabetic(Trigger[1])
AlphabeticEnd == IsAlphabetic(Trigger[Len(Trigger)])

\* the rule matched the text: handle returned its response
Matched == hres.ret = Some(T_hi)

\* C13 as stated: a literal trigger t with an alphabetic first or last
\* character is matched in "foo t bar" and is not matched in "foot tbar".
C13_WholeWordOnly ==
    (hres.ran /\ (AlphabeticStart \/ AlphabeticEnd)) =>
        /\ msg.message = Spaced(Trigger) => Matched
        /\ msg.message = GluedBoth(Trigger) => ~Matched

\* C13 amended: t is matched in "foo t bar"; an occurrence of t glued to
\* letters is matched exactly when it is glued only at ends of t that are
\* not alphabetic.
C13_WholeWordAtAlphabeticEnds ==
    (hres.ran /\ (AlphabeticStart \/ AlphabeticEnd)) =>
        /\ msg.message = Spaced(Trigger) => Matched
        /\ msg.message = GluedLeft(Trigger) => (Matched <=> ~AlphabeticStart)
        /\ msg.message = GluedRight(Trigger) => (Matched <=> ~AlphabeticEnd)
        /\ msg.message = GluedBoth(Trigger) =>
              (Matched <=> ~(AlphabeticStart /\ AlphabeticEnd))

\* a trigger that ends with a letter only at one end was matched in a text
\* where both its occurrences are glued to letters
C13_Witness ==
    /\ hres.ran /\ Matched /\ msg.message = GluedBoth(Trigger)
    /\ AlphabeticStart # AlphabeticEnd

---------------------------------------------------------------------------
(* Properties of the requested reload (SpecStore) *)

\* the next event of the call is a message of another client
NextIsMessage ==
    batch # <<>> /\ Head(batch).kind # "Other" /\ Head(batch).invoker # OwnClient

\* C14 as stated: once a message has requested the reload, the rebuild is
\* run before the next message is handled: no message is handled while the
\* reload is requested.
C14_ReloadBeforeNextMessage ==
    [][(HandleNext /\ NextIsMessage) => ~should_reload]_vars

\* the message "x bar" was handled after a message of the same call had
\* requested the reload
C14_Witness ==
    listening /\ should_reload /\ hres.ran /\ msg = EventMessage(E_bar)

---------------------------------------------------------------------------
(* Properties of the commands add and del (SpecCmd) *)

\* handle ran the builtin of this name for the message
Executed(name) ==
    \E k \in 1..Len(hres.executed) :
        /\ IsBuiltin(actions[hres.executed[k].idx])
        /\ Unwrap(actions[hres.executed[k].idx].reaction).s = <<name>>

\* the rules of a store file, none when the file is missing
StoreOf(dyn) == IF dyn.st = "ok" THEN dyn.af ELSE EmptyFile

WithLiteral(rules, trigger) ==
    {k \in 1..Len(rules) : rules[k].contains = Some(trigger)}

OtherRules(rules, trigger) ==
    SelectSeq(rules, LAMBDA a : a.contains # Some(trigger))

\* C17: a del that succeeds removes from the dynamic store exactly the rules
\* whose literal trigger equals the given string and reports their number;
\* the other rules stay, in their order, and the include list stays as it was.
C17_DelRemovesExactlyTheTrigger ==
    [][(HandleNext /\ Executed("del")' /\ hres'.ret # Some(T_Failed))
         => \E t \in {Unwrap(DelCaptures(Prefix, msg'.message))} :
            \E old \in {StoreOf(files.dynamic)} :
               /\ files'.dynamic =
                      FileOk(ActionFile(old.include, OtherRules(old.on_message, t)))
               /\ Unwrap(hres'.ret)[2] =
                      ToString(Cardinality(WithLiteral(old.on_message, t)))]_vars

\* del bar removed one rule and kept the include and a rule that has bar as
\* its pattern only
C17_Witness ==
    /\ hres.ran /\ Executed("del")
    /\ msg.message = T_del_bar
    /\ hres.ret = Some(<<"Removed ", "1", " element">>)
    /\ files.dynamic = FileOk(ActionFile(<<"inc">>, <<D_re_bar>>))

---------------------------------------------------------------------------
(* Properties of to_action (SpecDef) *)

\* the definition of the settings
Def == settings.on_message[1]

Reactions(d) == {f \in {"response", "command", "shell"} : IsSome(d[f])}

Conflict(d) ==
    \/ IsSome(d.contains) /\ IsSome(d.regex)
    \/ Cardinality(Reactions(d)) > 1

\* the pattern compiles and the chat mode is one of the four
WellFormed(d) ==
    /\ (IsSome(d.regex) => RegexNew(Unwrap(d.regex)).ok)
    /\ (IsSome(d.chat) => Unwrap(d.chat) \in ChatModes)

\* the rule has the reaction the definition gives, or none
ReactionAsGiven(a, d) ==
    /\ (Reactions(d) = {} => a.reaction = None)
    /\ (Reactions(d) = {"response"}
           => a.reaction = Some(ReactionOf("Plain", Unwrap(d.response))))
    /\ (Reactions(d) = {"command"}
           => a.reaction = Some(ReactionOf("Command", Unwrap(d.command))))
    /\ (Reactions(d) = {"shell"}
           => a.reaction = Some(ReactionOf("Shell", Unwrap(d.shell))))

BuildFailed == lastLoad = "failed" /\ actions = <<>>

BuiltOneRule ==
    lastLoad = "ok" /\ Len(actions) = 1 /\ ReactionAsGiven(actions[1], Def)

\* C19 as stated: building fails and yields no rule when the definition has
\* both contains and regex or more than one of response, command and shell;
\* every definition with at most one of each builds a rule, with at most one
\* reaction; handle never runs on a rule of a definition with a conflict.
C19_BuildFailsExactlyOnConflict ==
    /\ (lastLoad # "none" /\ Conflict(Def) => BuildFailed)
    /\ (lastLoad # "none" /\ ~Conflict(Def) => BuiltOneRule)
    /\ (hres.ran => ~Conflict(Def))

\* C19 amended: as above, where the definitions with at most one of each
\* that build a rule are those whose pattern compiles and whose chat mode is
\* server, channel, client or poke.
C19_BuildFailsOnConflict ==
    /\ (lastLoad # "none" /\ Conflict(Def) => BuildFailed)
    /\ (lastLoad # "none" /\ ~Conflict(Def) /\ WellFormed(Def) => BuiltOneRule)
    /\ (hres.ran => ~Conflict(Def))

\* a definition with a command and a shell reaction, and nothing else
\* wrong, was refused
C19_Witness ==
    /\ lastLoad = "failed" /\ actions = <<>>
    /\ Reactions(Def) = {"command", "shell"}
    /\ ~IsSome(Def.regex) /\ WellFormed(Def)

---------------------------------------------------------------------------
(* Properties of the list command (SpecList) *)

\* the page number the message asks for
Asked == (CHOOSE a \in ListAsks : a.text = msg.message).n

\* what list replies with page k of the listing
PageReply(k) ==
    IF Len(list) > 1
    THEN <<"Page ", ToString(k), "/", ToString(Len(list)), ", use [i]">> \o Prefix
         \o <<"list <page>[/i] to show more.">> \o list[k]
    ELSE list[k]

---------------------------------------------------------------------------
(* Properties of the builtin quit (SpecQuit) *)

\* the rule handle executed last
LastExecuted == hres.executed[Len(hres.executed)].idx

\* C21 as stated: when quit runs the connection is removed, nothing is
\* sent for the message, no rule after quit is tested for it, and once the
\* connection is removed no event is handled, also not the later events of
\* the same call of the listener.
C21_QuitStopsHandling ==
    [][/\ (HandleNext /\ Executed("quit")')
          => /\ con' = "removed" /\ sent' = <<>>
             /\ \A k \in 1..Len(hres'.tested) : hres'.tested[k] <= LastExecuted'
       /\ (HandleNext /\ con = "removed") => ~hres'.ran]_vars

\* handle ran the builtin help for an event that came after quit in the same
\* call of the listener
C21_Witness ==
    /\ con = "removed" /\ listening
    /\ hres.ran /\ msg.message = T_help /\ Executed("help")
    /\ hres.ret = Some(T_Help(Prefix))

---------------------------------------------------------------------------
(* Properties of rules with an empty response or without matchers         *)
(* (SpecHandle)                                                            *)

EmptyPlain(a) == a.reaction = Some(ReactionOf("Plain", <<>>))

\* the list with every empty plain response replaced by no reaction
Silenced(as) ==
    [i \in 1..Len(as) |->
        IF EmptyPlain(as[i]) THEN Action(as[i].matchers, None) ELSE as[i]]

\* C22: a rule whose plain response is the empty text acts as the same rule
\* without a reaction: handle tests the same rules and returns the same,
\* and where such a rule was executed (it yields Some("")) handle returned
\* None and tested no later rule.
C22_EmptyResponseLikeNoReaction ==
    hres.ran =>
        /\ \E h \in {Handle(Silenced(actions), msg, oracle, NoFunctions)} :
              hres.ret = h.ret /\ hres.tested = h.tested
        /\ \A e \in Range(hres.executed) :
              EmptyPlain(actions[e.idx]) =>
                  /\ e.ret = Some(<<>>)
                  /\ hres.ret = None
                  /\ \A j \in Range(hres.tested) : j <= e.idx

\* a rule with an empty plain response was executed before a rule that
\* matches and has a response that is not empty
C22_Witness ==
    /\ hres.ran /\ hres.ret = None
    /\ \E e \in Range(hres.executed) :
          /\ EmptyPlain(actions[e.idx])
          /\ \E j \in (e.idx + 1)..Len(actions) :
                /\ AllMatch(actions[j], msg)
                /\ IsSome(actions[j].reaction)
                /\ Unwrap(actions[j].reaction).kind = "Plain"
                /\ Unwrap(actions[j].reaction).s # <<>>

---------------------------------------------------------------------------
(* Properties of the rules without matchers (SpecAll) *)

NoMatcherDef(d) == d.contains = None /\ d.regex = None /\ d.chat = None

CatchAll(i) == actions[i].matchers = <<>>

\* C23: a definition without contains, regex and chat gives a rule without
\* matchers, which matches every message; when such a rule has no reaction
\* or its reaction yields a result, handle tests and executes no rule after
\* it, so no later rule and no builtin gives the reply.
C23_CatchAllShadowsLaterRules ==
    /\ up => \A k \in 1..Len(settings.on_message) :
                NoMatcherDef(settings.on_message[k]) =>
                    /\ k <= Len(actions) /\ CatchAll(k)
                    /\ \A e \in AllEvents : AllMatch(actions[k], EventMessage(e))
    /\ hres.ran =>
          \A i \in 1..Len(actions) :
              (CatchAll(i) /\ Conclusive(i)) =>
                  \A j \in Range(hres.tested) \cup ExecutedRules : j <= i

\* the message .help was stopped by a first rule without matchers, with the
\* builtin help after it in the list
C23_Witness ==
    /\ hres.ran /\ msg.message = T_help
    /\ CatchAll(1) /\ Conclusive(1)
    /\ hres.tested = <<1>>
    /\ \E j \in 2..Len(actions) :
          IsBuiltin(actions[j]) /\ AllMatch(actions[j], msg)

---------------------------------------------------------------------------
(* Properties of sequences of the command add (SpecAdd) *)

\* the rules that did not come from the builtins and match the message
DynMatching == {i \in 1..Len(actions) : ~IsBuiltin(actions[i]) /\ AllMatch(actions[i], msg)}

\* the rules built from the definitions of a store file, in their order
RulesOf(dyn) ==
    [k \in 1..Len(StoreOf(dyn).on_message) |-> ToAction(StoreOf(dyn).on_message[k]).val]

\* handle ran the builtin add, which returned the empty text: it has
\* written the store
AddSucceeded ==
    \E e \in Range(hres.executed) :
        /\ IsBuiltin(actions[e.idx])
        /\ Unwrap(actions[e.idx].reaction).s = <<"add">>
        /\ e.ret = Some(<<>>)

\* C24: an add that succeeds leaves the rules of the dynamic store as they
\* were and puts the new rule, with the trigger as contains and the text as
\* response, after them; a load builds the rules in the order of the store;
\* and a message that several of these rules match is answered with the
\* response of the first of them, the one added earliest.
C24_AddAppendsEarliestAnswers ==
    [][/\ (HandleNext /\ AddSucceeded')
          => \E c \in {Unwrap(AddCaptures(Prefix, msg'.message))} :
             \E old \in {StoreOf(files.dynamic)} :
                files'.dynamic =
                    FileOk(ActionFile(old.include,
                        old.on_message \o <<ActionDefinition(Some(c.trigger), None,
                                                None, Some(c.response), None, None)>>))
       /\ ((Start \/ Reload) /\ lastLoad' = "ok") => actions' = RulesOf(files.dynamic)
       /\ (HandleNext /\ hres'.ran /\ Cardinality(DynMatching') >= 2)
          => \E i \in DynMatching' :
                /\ \A j \in DynMatching' : i <= j
                /\ hres'.ret = Some(Unwrap(actions[i].reaction).s)]_vars

\* after add foo on bar and add qux on bar, a message with bar matched both
\* rules and was answered foo
C24_Witness ==
    /\ hres.ran /\ msg.message = T_x_bar
    /\ files.dynamic = FileOk(ActionFile(<<>>, <<D_bar_foo, D_bar_qux>>))
    /\ actions = RulesOf(files.dynamic)
    /\ DynMatching = {1, 2}
    /\ hres.ret = Some(T_foo)

====
